---- MODULE Spec2Model ----
(***************************************************************************)
(* Model of src/check_live.js: the Twitch live-status poller.              *)
(*                                                                         *)
(* One action per stretch of code that runs without suspension: main up to *)
(* its first network await, the continuation after the credential-exchange *)
(* response, and the continuation after each streams response (which ends  *)
(* in writeJSON when the last batch has been answered).                    *)
(*                                                                         *)
(* Spec is the program as shipped (one call of main per process),          *)
(* SpecTimer the timer mode (main repeated in one process), SpecRoster     *)
(* loadUsernames on every small spreadsheet.                               *)
(***************************************************************************)
EXTENDS Integers, Sequences, FiniteSets, TLC

(***************************************************************************)
(* Bounds of the model.                                                    *)
(***************************************************************************)
\* main calls per process (the timer mode of lines 114-117 repeats main)
MaxRuns == 3
\* clock steps per behaviour
MaxTicks == 2
\* data rows of the enumerated small spreadsheets
MaxRows == 2
\* getToken calls of runs that may overlap
MaxCalls == 2

\* the clock advances in these steps (ms), up to the horizon
ClockSteps == {30000}
Horizon == MaxTicks * 30000

(***************************************************************************)
(* Strings are sequences of one-character strings, so that trim and        *)
(* toLowerCase are computed and not assumed.                               *)
(***************************************************************************)
Upper == <<"A","B","C","D","E","F","G","H","I","J","K","L","M",
           "N","O","P","Q","R","S","T","U","V","W","X","Y","Z">>
Lower == <<"a","b","c","d","e","f","g","h","i","j","k","l","m",
           "n","o","p","q","r","s","t","u","v","w","x","y","z">>
Digits == <<"0","1","2","3","4","5","6","7","8","9">>
WhiteSpace == {" ", "\t"}

ToLowerChar(c) ==
    IF \E k \in 1..26 : Upper[k] = c
    THEN Lower[CHOOSE k \in 1..26 : Upper[k] = c]
    ELSE c

\* String.prototype.toLowerCase
ToLowerCase(s) == [k \in 1..Len(s) |-> ToLowerChar(s[k])]

RECURSIVE TrimStart(_)
TrimStart(s) ==
    IF s # <<>> /\ Head(s) \in WhiteSpace THEN TrimStart(Tail(s)) ELSE s

RECURSIVE TrimEnd(_)
TrimEnd(s) ==
    IF s # <<>> /\ s[Len(s)] \in WhiteSpace
    THEN TrimEnd(SubSeq(s, 1, Len(s) - 1))
    ELSE s

\* String.prototype.trim
Trim(s) == TrimEnd(TrimStart(s))

\* Number.prototype.toString for an integer
RECURSIVE NatToString(_)
NatToString(n) ==
    IF n < 10 THEN <<Digits[n + 1]>>
    ELSE NatToString(n \div 10) \o <<Digits[(n % 10) + 1]>>

NumberToString(n) == IF n < 0 THEN <<"-">> \o NatToString(0 - n) ELSE NatToString(n)

(***************************************************************************)
(* Spreadsheet cells as XLSX.utils.sheet_to_json(sh, {header: 1}) returns  *)
(* them: a string, a number, a boolean, or nothing (undefined).            *)
(***************************************************************************)
StrCell(s)  == [t |-> "string",  s |-> s,    n |-> 0]
NumCell(n)  == [t |-> "number",  s |-> <<>>, n |-> n]
BoolCell(b) == [t |-> "boolean", s |-> <<>>, n |-> IF b THEN 1 ELSE 0]
Undefined   == [t |-> "undefined", s |-> <<>>, n |-> 0]

\* rows[i][k] for a zero-based column k: undefined past the row's end
CellAt(row, k) == IF k + 1 <= Len(row) THEN row[k + 1] ELSE Undefined

\* JavaScript truthiness of a cell value
Truthy(c) ==
    CASE c.t = "string"  -> c.s # <<>>
      [] c.t = "number"  -> c.n # 0
      [] c.t = "boolean" -> c.n = 1
      [] OTHER           -> FALSE

\* (cell || "").toString()
OrEmptyToString(c) ==
    IF ~Truthy(c) THEN <<>>
    ELSE CASE c.t = "string" -> c.s
           [] c.t = "number" -> NumberToString(c.n)
           [] OTHER          -> <<"t","r","u","e">>


(***************************************************************************)
(* loadUsernames (lines 43-57).                                            *)
(***************************************************************************)
No == <<"n","o">>
False == <<"f","a","l","s","e">>

\* lines 50-52: the trimmed identifier, the trimmed lower-cased flag, the test
RowUsername(row) == Trim(OrEmptyToString(CellAt(row, 0)))
RowRecent(row) == ToLowerCase(Trim(OrEmptyToString(CellAt(row, 4))))

RowIncluded(row) ==
    /\ RowUsername(row) # <<>>
    /\ RowRecent(row) # <<>>
    /\ RowRecent(row) # No
    /\ RowRecent(row) # False

\* the for loop of lines 49-55: the rows after rows[0], in order, each one
\* that passes the test contributing its trimmed identifier
LoadUsernames(rows) ==
    LET kept == SelectSeq(SubSeq(rows, 2, Len(rows)), RowIncluded)
    IN  [k \in 1..Len(kept) |-> RowUsername(kept[k])]

(***************************************************************************)
(* The spreadsheets the model reads.                                       *)
(***************************************************************************)
Yes == <<"y","e","s">>
Header == <<StrCell(<<"n","a","m","e">>), Undefined, Undefined, Undefined,
            StrCell(<<"r","e","c","e","n","t">>)>>

Row(a, e) == <<a, Undefined, Undefined, Undefined, e>>

\* column A values and column E values of the enumerated small sheets
UsernameCells ==
    { StrCell(<<"a","l">>), StrCell(<<" ","B","o"," ">>), StrCell(<<" ">>),
      NumCell(0), NumCell(7) }
RecentCells ==
    { StrCell(Yes), StrCell(<<"N","O">>), StrCell(<<" ","n","o","\t">>),
      StrCell(<<"F","a","l","s","e">>), StrCell(<<"n","o","w">>),
      StrCell(<<" ">>), Undefined,
      NumCell(0), NumCell(1), BoolCell(TRUE), BoolCell(FALSE) }

\* a full row for every pair of them, a row without cells, a row of one cell
RowKinds ==
    { Row(a, e) : a \in UsernameCells, e \in RecentCells }
      \cup { <<>>, <<StrCell(<<"a","l">>)>> }

RECURSIVE SeqsUpTo(_, _)
SeqsUpTo(S, n) ==
    IF n = 0 THEN { <<>> }
    ELSE LET shorter == SeqsUpTo(S, n - 1)
         IN  shorter \cup { Append(q, x) : q \in { r \in shorter : Len(r) = n - 1 }, x \in S }

\* every sheet of a header and at most n data rows, and the sheet without rows
RosterSheets(n) ==
    { <<Header>> \o q : q \in SeqsUpTo(RowKinds, n) } \cup { <<>> }

\* a sheet of n included rows whose identifiers are the numbers 1 .. n
BigSheet(n) == <<Header>> \o [k \in 1..n |-> Row(NumCell(k), StrCell(Yes))]

\* the end-to-end sheet of the documentation: alice/yes, bob/no, carol/empty
EndToEndSheet ==
    << Header,
       Row(StrCell(<<"a","l","i","c","e">>), StrCell(Yes)),
       Row(StrCell(<<"b","o","b">>), StrCell(No)),
       Row(StrCell(<<"c","a","r","o","l">>), StrCell(<<>>)) >>

BigSizes == {100, 101, 200, 250}

\* the sheets of the single-pass specification
Spreadsheets ==
    { <<>>, <<Header>>, EndToEndSheet } \cup { BigSheet(n) : n \in BigSizes }

\* the sheets of the timer-mode specification
TimerSheets == { <<Header>>, EndToEndSheet }

(***************************************************************************)
(* What the two endpoints may answer.                                      *)
(***************************************************************************)
Null == "null"
Absent == "<absent>"

\* access_token values of a credential-exchange response that carries one
Tokens == {"tokA", "tokB"}
\* access_token of a response that carries none: the field absent, or empty
NoTokens == {Absent, ""}
\* expires_in (seconds) of a credential-exchange response
Lifetimes == {60, 90, 120}

EntryAlice == [user_name |-> "alice", title |-> "Chess", game_name |-> "Chess.com",
               started_at |-> "2024-05-01T10:00:00Z"]
EntryBob == [user_name |-> "bob", title |-> Absent, game_name |-> "",
             started_at |-> "2024-05-01T09:30:00Z"]

\* a streams response body: with a data array, or without one (an error payload)
Body(hasData, data) == [hasData |-> hasData, data |-> data]
NoDataBody == Body(FALSE, <<>>)
StreamBodies ==
    { NoDataBody, Body(TRUE, <<>>), Body(TRUE, <<EntryAlice>>),
      Body(TRUE, <<EntryBob, EntryAlice>>), Body(TRUE, <<EntryAlice, EntryAlice>>) }
\* the bodies of the timer-mode specification
TimerBodies == { NoDataBody, Body(TRUE, <<EntryAlice>>) }

(***************************************************************************)
(* checkLive's pieces (lines 60-86) and writeJSON's (lines 88-96).         *)
(***************************************************************************)
BatchSize == 100
SafetyMarginMs == 60000
MsPerSecond == 1000

Min(a, b) == IF a < b THEN a ELSE b

\* mutant of Batch: the slice ends one element late
BatchOneTooMany(ns, j) == SubSeq(ns, j + 1, Min(j + BatchSize + 1, Len(ns)))

\* names.slice(i, i + 100), i zero-based
Batch(ns, j) == SubSeq(ns, j + 1, Min(j + BatchSize, Len(ns)))

\* x || ""
OrEmpty(x) == IF x \in {Absent, ""} THEN "" ELSE x

\* mutant of LiveRecord: title and game copied without their defaults
LiveRecordNoDefaults(s) ==
    [username |-> s.user_name, title |-> s.title,
     game |-> s.game_name, started_at |-> s.started_at]

\* the object pushed for one entry of data.data (lines 76-81)
LiveRecord(s) ==
    [username |-> s.user_name, title |-> OrEmpty(s.title),
     game |-> OrEmpty(s.game_name), started_at |-> s.started_at]

\* mutant of Collected: a body without data empties the list
CollectedOrReset(live, body) ==
    IF body.hasData
    THEN live \o [k \in 1..Len(body.data) |-> LiveRecord(body.data[k])]
    ELSE <<>>

\* liveUsers after the body of one response has been handled (lines 74-83)
Collected(live, body) ==
    IF body.hasData
    THEN live \o [k \in 1..Len(body.data) |-> LiveRecord(body.data[k])]
    ELSE live

\* new Date().toISOString() of the clock's milliseconds
ToISOString(ms) == <<"ISO-8601", ms>>

NoFile == [state |-> "none", timestamp |-> <<"none", 0>>, live |-> <<>>]
\* live.json after a writeFileSync that failed once the file was opened
\* (opening with flag 'w' truncates): cut short, no longer a snapshot
TruncatedFile == [state |-> "truncated", timestamp |-> <<"none", 0>>, live |-> <<>>]

\* the object of lines 89-92, as the file holds it
Snapshot(ms, liveList) ==
    [state |-> "snapshot", timestamp |-> ToISOString(ms), live |-> liveList]

\* what an earlier invocation of the program left in live.json
PreviousSnapshot == Snapshot(0 - 300000, <<LiveRecord(EntryBob)>>)

\* mutant of CacheValid: the comparison reversed
CacheValidReversed(cache, t) == cache.token \notin {Null, ""} /\ t > cache.expiry

\* the cache test of line 29
CacheValid(cache, t) == cache.token \notin {Null, ""} /\ t < cache.expiry

\* line 37
Expiry(t, expiresIn) == t + expiresIn * MsPerSecond - SafetyMarginMs

TokenRequest == [kind |-> "token", batch |-> <<>>, bearer |-> ""]
StreamsRequest(batch, bearer) == [kind |-> "streams", batch |-> batch, bearer |-> bearer]


(***************************************************************************)
(* The configuration (lines 10-22): what the environment and config.json   *)
(* may hold.                                                               *)
(***************************************************************************)
\* a value JavaScript treats as true in a condition (strings and undefined)
TruthyString(v) == v \notin {Absent, ""}

\* the object of line 11, or one JSON.parse returned; null is JSON's null,
\* whose fields cannot be read
Credentials(id, secret) ==
    [isNull |-> FALSE, twitch_client_id |-> id, twitch_client_secret |-> secret]
JsonNull == [isNull |-> TRUE, twitch_client_id |-> Absent, twitch_client_secret |-> Absent]

\* line 11
EmptyCredentials == Credentials("", "")

\* process.env: each variable unset, set to the empty string, or set
Environments ==
    [TWITCH_CLIENT_ID : {Absent, "", "env-id"},
     TWITCH_CLIENT_SECRET : {Absent, "", "env-secret"}]

\* config.json: not there (readFileSync throws), not JSON (JSON.parse throws),
\* or JSON: null, or an object with each field absent, empty or set
MissingFile == [kind |-> "missing", value |-> JsonNull]
InvalidFile == [kind |-> "invalid", value |-> JsonNull]
JsonFile(v) == [kind |-> "json", value |-> v]
ConfigFiles ==
    {MissingFile, InvalidFile, JsonFile(JsonNull)} \cup
    { JsonFile(Credentials(id, secret)) :
        id \in {Absent, "", "file-id"}, secret \in {Absent, "", "file-secret"} }

\* the test of line 13
EnvComplete(e) == TruthyString(e.TWITCH_CLIENT_ID) /\ TruthyString(e.TWITCH_CLIENT_SECRET)

\* the setting of the scheduled workflow: both secrets in the environment
WorkflowEnv == [TWITCH_CLIENT_ID |-> "env-id", TWITCH_CLIENT_SECRET |-> "env-secret"]

\* writeJSON has not returned yet
NoOut == [timestamp |-> <<"none", 0>>, live |-> <<>>]

\* the object of lines 89-92
Out(ms, liveList) == [timestamp |-> ToISOString(ms), live |-> liveList]

\* JSON.stringify(out, null, 2) as live.json then holds it
Stringified(o) == [state |-> "snapshot", timestamp |-> o.timestamp, live |-> o.live]


(***************************************************************************)
(* State.                                                                  *)
(***************************************************************************)
VARIABLES
    tokenCache,  \* line 24: [token, expiry]
    clock,       \* what Date.now() returns
    exitCode,    \* process.exitCode
    file,        \* the content of live.json
    pc,          \* where main is: "idle", "token", "streams", "done"
    names,       \* main's names
    now,         \* getToken's now (line 28)
    token,       \* checkLive's token (line 61)
    i,           \* checkLive's loop index
    liveUsers,   \* checkLive's liveUsers
    runs,        \* history: main calls started in this process
    rows,        \* history: the rows loadUsernames read in the current run
    reqs,        \* history: the requests the current run has issued, in order
    resps,       \* history: the streams bodies the current run has received
    raised,      \* history: the step of the current run that threw, or "none"
    fileBefore,  \* history: live.json when the current run started
    gtLog,       \* history: the last two getToken calls of this process
    CONFIG,      \* line 11
    env,         \* process.env
    configJson,  \* config.json on disk
    warned,      \* the warning of line 21 has been printed
    loaded,      \* lines 10-22 have run
    out,         \* history: what the last writeJSON call returned
    calls        \* the getToken calls of runs that may overlap

\* the configuration and what it was resolved from
startup == <<CONFIG, env, configJson, warned, loaded>>

vars == <<tokenCache, clock, exitCode, file, pc, names, now, token, i,
          liveUsers, runs, rows, reqs, resps, raised, fileBefore, gtLog,
          startup, out, calls>>

\* the process before its first statement
Fresh ==
    /\ tokenCache = [token |-> Null, expiry |-> 0]
    /\ clock = 0
    /\ exitCode = 0
    /\ file \in {NoFile, PreviousSnapshot}
    /\ pc = "idle"
    /\ names = <<>>
    /\ now = 0
    /\ token = Null
    /\ i = 0
    /\ liveUsers = <<>>
    /\ runs = 0
    /\ rows = <<>>
    /\ reqs = <<>>
    /\ resps = <<>>
    /\ raised = "none"
    /\ fileBefore = file
    /\ gtLog = <<>>
    /\ out = NoOut
    /\ calls = <<>>

\* lines 11-22: CONFIG after the try statement, and whether line 21 warned
ConfigResolved(e, f) ==
    IF EnvComplete(e)
    THEN [CONFIG |-> Credentials(e.TWITCH_CLIENT_ID, e.TWITCH_CLIENT_SECRET),
          warned |-> FALSE]
    ELSE IF f.kind = "json"
         THEN [CONFIG |-> f.value, warned |-> FALSE]
         ELSE [CONFIG |-> EmptyCredentials, warned |-> TRUE]

\* the module has been loaded in the workflow's setting (lines 1-24)
Init ==
    /\ Fresh
    /\ env = WorkflowEnv
    /\ configJson = MissingFile
    /\ CONFIG = ConfigResolved(env, configJson).CONFIG
    /\ warned = ConfigResolved(env, configJson).warned
    /\ loaded = TRUE

\* what main and its callees leave alone
elsewhere == <<startup, calls>>

\* mutant of Catch: the exit code is not set
CatchWithoutExitCode(step) ==
    /\ exitCode' = exitCode
    /\ raised' = step
    /\ pc' = "done"

\* the catch block of main (lines 108-111)
Catch(step) ==
    /\ exitCode' = 1
    /\ raised' = step
    /\ pc' = "done"

\* main is called (line 116, 117 or 121) when no earlier call is still running
MainCalled ==
    /\ pc \in {"idle", "done"}
    /\ runs' = runs + 1
    /\ fileBefore' = file
    /\ resps' = <<>>
    /\ liveUsers' = <<>>
    /\ i' = 0

\* in a getToken record: no response has been received
NoResponse == "<no response>"

\* the history of getToken calls with one more call
Logged(call) == (IF Len(gtLog) = 2 THEN Tail(gtLog) ELSE gtLog) \o <<call>>

\* mutant of MainLoadFails: the token is asked for before the sheet is read
MainLoadFailsAfterTokenRequest ==
    /\ MainCalled
    /\ Catch("load")
    /\ rows' = <<>>
    /\ names' = <<>>
    /\ reqs' = <<TokenRequest>>
    /\ UNCHANGED <<elsewhere, out, tokenCache, clock, file, now, token, gtLog>>

\* lines 99-101, 108-111: XLSX.readFile or sheet_to_json throws
MainLoadFails ==
    /\ MainCalled
    /\ Catch("load")
    /\ rows' = <<>>
    /\ names' = <<>>
    /\ reqs' = <<>>
    /\ UNCHANGED <<elsewhere, out, tokenCache, clock, file, now, token, gtLog>>

\* mutant of MainNoNames: the return of line 104 is missing, an empty
\* snapshot is written
MainNoNamesWritesEmpty(sheet) ==
    /\ MainCalled
    /\ rows' = sheet
    /\ names' = LoadUsernames(sheet)
    /\ names' = <<>>
    /\ pc' = "done"
    /\ raised' = "none"
    /\ reqs' = <<>>
    /\ out' = Out(clock, <<>>)
    /\ file' = Stringified(out')
    /\ UNCHANGED <<elsewhere, tokenCache, clock, exitCode, now, token, gtLog>>

\* lines 99-105: no identifier passes the filter, main returns
MainNoNames(sheet) ==
    /\ MainCalled
    /\ rows' = sheet
    /\ names' = LoadUsernames(sheet)
    /\ names' = <<>>
    /\ pc' = "done"
    /\ raised' = "none"
    /\ reqs' = <<>>
    /\ UNCHANGED <<elsewhere, out, tokenCache, clock, exitCode, file, now, token, gtLog>>

\* lines 99-106, 61, 28-29, 62-71: the cached token is returned and the first
\* batch is requested
MainTokenCached(sheet) ==
    /\ MainCalled
    /\ rows' = sheet
    /\ names' = LoadUsernames(sheet)
    /\ names' # <<>>
    /\ now' = clock
    /\ CacheValid(tokenCache, now')
    /\ token' = tokenCache.token
    /\ reqs' = <<StreamsRequest(Batch(names', 0), token')>>
    /\ pc' = "streams"
    /\ raised' = "none"
    /\ gtLog' = Logged([run |-> runs', at |-> clock, before |-> tokenCache,
                        issued |-> 0, response |-> NoResponse, lifetime |-> 0,
                        state |-> "returned", ret |-> token', after |-> tokenCache])
    /\ UNCHANGED <<elsewhere, out, tokenCache, clock, exitCode, file>>

\* lines 99-106, 61, 28-32: no usable cached token, the credential exchange is
\* requested
MainTokenRequest(sheet) ==
    /\ MainCalled
    /\ rows' = sheet
    /\ names' = LoadUsernames(sheet)
    /\ names' # <<>>
    /\ now' = clock
    /\ ~CacheValid(tokenCache, now')
    /\ reqs' = <<TokenRequest>>
    /\ pc' = "token"
    /\ raised' = "none"
    /\ gtLog' = Logged([run |-> runs', at |-> clock, before |-> tokenCache,
                        issued |-> 1, response |-> NoResponse, lifetime |-> 0,
                        state |-> "pending", ret |-> "", after |-> tokenCache])
    /\ UNCHANGED <<elsewhere, out, tokenCache, clock, exitCode, file, token>>

\* the record of the getToken call in progress, completed: how it ended, the
\* access_token and expires_in of the response, what it returned, the cache
Completed(state, response, lifetime, ret, after) ==
    [gtLog EXCEPT ![Len(gtLog)] =
        [@ EXCEPT !.state = state, !.response = response, !.lifetime = lifetime,
                  !.ret = ret, !.after = after]]

\* lines 32-33: fetch rejects, or the body is not JSON
TokenFetchThrows ==
    /\ pc = "token"
    /\ Catch("token_fetch")
    /\ gtLog' = Completed("threw", NoResponse, 0, "", tokenCache)
    /\ UNCHANGED <<elsewhere, out, tokenCache, clock, file, names, now, token, i, liveUsers,
                   runs, rows, reqs, resps, fileBefore>>

\* mutant of TokenMissing: the test of line 34 is missing, the absent token is
\* cached and used
TokenMissingIgnored(accessToken) ==
    /\ pc = "token"
    /\ accessToken \in NoTokens
    /\ tokenCache' = [token |-> accessToken, expiry |-> Expiry(now, 0)]
    /\ token' = tokenCache'.token
    /\ 0 < Len(names)
    /\ i' = 0
    /\ reqs' = Append(reqs, StreamsRequest(Batch(names, 0), token'))
    /\ pc' = "streams"
    /\ gtLog' = Completed("returned", accessToken, 0, token', tokenCache')
    /\ UNCHANGED <<elsewhere, out, clock, exitCode, file, names, now, liveUsers, runs, rows, resps,
                   raised, fileBefore>>

\* mutant of TokenMissing: the failed refresh throws the cached token away
TokenMissingClearsCache(accessToken) ==
    /\ pc = "token"
    /\ accessToken \in NoTokens
    /\ Catch("auth")
    /\ tokenCache' = [token |-> Null, expiry |-> 0]
    /\ gtLog' = Completed("threw", accessToken, 0, "", tokenCache')
    /\ UNCHANGED <<elsewhere, out, clock, file, names, now, token, i, liveUsers,
                   runs, rows, reqs, resps, fileBefore>>

\* line 34: the response carries no access token
TokenMissing(accessToken) ==
    /\ pc = "token"
    /\ accessToken \in NoTokens
    /\ Catch("auth")
    /\ gtLog' = Completed("threw", accessToken, 0, "", tokenCache)
    /\ UNCHANGED <<elsewhere, out, tokenCache, clock, file, names, now, token, i, liveUsers,
                   runs, rows, reqs, resps, fileBefore>>

\* mutant of TokenGranted: only the expiry is stored, the cached token stays
TokenGrantedKeepsOld(accessToken, expiresIn) ==
    /\ pc = "token"
    /\ accessToken \notin NoTokens
    /\ tokenCache' = [token |-> IF tokenCache.token = Null THEN accessToken
                                ELSE tokenCache.token,
                      expiry |-> Expiry(now, expiresIn)]
    /\ token' = tokenCache'.token
    /\ 0 < Len(names)
    /\ i' = 0
    /\ reqs' = Append(reqs, StreamsRequest(Batch(names, 0), token'))
    /\ pc' = "streams"
    /\ gtLog' = Completed("returned", accessToken, expiresIn, token', tokenCache')
    /\ UNCHANGED <<elsewhere, out, clock, exitCode, file, names, now, liveUsers, runs, rows, resps,
                   raised, fileBefore>>

\* mutant of TokenGranted: the lifetime is counted from the time the response
\* arrived instead of the time getToken read at its start
TokenGrantedAtResponseTime(accessToken, expiresIn) ==
    /\ pc = "token"
    /\ accessToken \notin NoTokens
    /\ tokenCache' = [token |-> accessToken, expiry |-> Expiry(clock, expiresIn)]
    /\ token' = tokenCache'.token
    /\ 0 < Len(names)
    /\ i' = 0
    /\ reqs' = Append(reqs, StreamsRequest(Batch(names, 0), token'))
    /\ pc' = "streams"
    /\ gtLog' = Completed("returned", accessToken, expiresIn, token', tokenCache')
    /\ UNCHANGED <<elsewhere, out, clock, exitCode, file, names, now, liveUsers, runs, rows, resps,
                   raised, fileBefore>>

\* lines 36-39, 61-71: the token is cached and returned, the first batch is
\* requested (main has returned already when names is empty)
TokenGranted(accessToken, expiresIn) ==
    /\ pc = "token"
    /\ accessToken \notin NoTokens
    /\ tokenCache' = [token |-> accessToken, expiry |-> Expiry(now, expiresIn)]
    /\ token' = tokenCache'.token
    /\ 0 < Len(names)
    /\ i' = 0
    /\ reqs' = Append(reqs, StreamsRequest(Batch(names, 0), token'))
    /\ pc' = "streams"
    /\ gtLog' = Completed("returned", accessToken, expiresIn, token', tokenCache')
    /\ UNCHANGED <<elsewhere, out, clock, exitCode, file, names, now, liveUsers, runs, rows, resps,
                   raised, fileBefore>>

\* lines 71-72: fetch rejects, or the body is not JSON
StreamsThrows ==
    /\ pc = "streams"
    /\ Catch("batch")
    /\ UNCHANGED <<elsewhere, out, tokenCache, clock, file, names, now, token, i, liveUsers,
                   runs, rows, reqs, resps, fileBefore, gtLog>>

\* mutant of StreamsNext: getToken is called again before the next batch, and
\* asks for a new token when the cached one is no longer usable
StreamsNextCallsGetToken(body) ==
    /\ pc = "streams"
    /\ resps' = Append(resps, body)
    /\ liveUsers' = Collected(liveUsers, body)
    /\ i' = i + BatchSize
    /\ i' < Len(names)
    /\ now' = clock
    /\ reqs' = reqs \o (IF CacheValid(tokenCache, now') THEN <<>> ELSE <<TokenRequest>>)
                    \o <<StreamsRequest(Batch(names, i'), tokenCache.token)>>
    /\ gtLog' = Logged([run |-> runs, at |-> clock, before |-> tokenCache,
                        issued |-> IF CacheValid(tokenCache, now') THEN 0 ELSE 1,
                        response |-> NoResponse, lifetime |-> 0,
                        state |-> "returned", ret |-> tokenCache.token,
                        after |-> tokenCache])
    /\ UNCHANGED <<elsewhere, out, tokenCache, clock, exitCode, file, pc, names, token,
                   runs, rows, raised, fileBefore>>

\* lines 72-84, 68-71: the body is handled and the next batch is requested
StreamsNext(body) ==
    /\ pc = "streams"
    /\ resps' = Append(resps, body)
    /\ liveUsers' = Collected(liveUsers, body)
    /\ i' = i + BatchSize
    /\ i' < Len(names)
    /\ reqs' = Append(reqs, StreamsRequest(Batch(names, i'), token))
    /\ UNCHANGED <<elsewhere, out, tokenCache, clock, exitCode, file, pc, names, now, token,
                   runs, rows, raised, fileBefore, gtLog>>

\* mutant of StreamsLastWritten: the records are added to the ones live.json
\* already holds
StreamsLastWrittenMerged(body) ==
    /\ pc = "streams"
    /\ resps' = Append(resps, body)
    /\ liveUsers' = Collected(liveUsers, body)
    /\ i' = i + BatchSize
    /\ ~(i' < Len(names))
    /\ out' = Out(clock, file.live \o liveUsers')
    /\ file' = Stringified(out')
    /\ pc' = "done"
    /\ UNCHANGED <<elsewhere, tokenCache, clock, exitCode, names, now, token, runs, rows, reqs,
                   raised, fileBefore, gtLog>>

\* lines 72-85, 107, 88-96: the last body is handled and the snapshot is written
StreamsLastWritten(body) ==
    /\ pc = "streams"
    /\ resps' = Append(resps, body)
    /\ liveUsers' = Collected(liveUsers, body)
    /\ i' = i + BatchSize
    /\ ~(i' < Len(names))
    /\ out' = Out(clock, liveUsers')
    /\ file' = Stringified(out')
    /\ pc' = "done"
    /\ UNCHANGED <<elsewhere, tokenCache, clock, exitCode, names, now, token, runs, rows, reqs,
                   raised, fileBefore, gtLog>>

\* what live.json may hold after writeFileSync threw: untouched when the file
\* could not be opened, cut short when the write failed after the open
AfterFailedWrite == {file, TruncatedFile}

\* lines 72-85, 107, 93, 108-111: the last body is handled, writeFileSync throws
StreamsLastWriteFails(body) ==
    /\ pc = "streams"
    /\ resps' = Append(resps, body)
    /\ liveUsers' = Collected(liveUsers, body)
    /\ i' = i + BatchSize
    /\ ~(i' < Len(names))
    /\ file' \in AfterFailedWrite
    /\ Catch("write")
    /\ UNCHANGED <<elsewhere, out, tokenCache, clock, names, now, token, runs, rows, reqs,
                   fileBefore, gtLog>>

\* time passes
Tick ==
    /\ \E d \in ClockSteps :
          /\ clock + d <= Horizon
          /\ clock' = clock + d
    /\ UNCHANGED <<elsewhere, out, tokenCache, exitCode, file, pc, names, now, token, i,
                   liveUsers, runs, rows, reqs, resps, raised, fileBefore, gtLog>>

\* what a getToken call on its own leaves alone
mainState == <<exitCode, file, pc, names, now, token, i, liveUsers, runs, rows,
               reqs, resps, raised, fileBefore, gtLog, out>>

\* the getToken calls suspended at the await of line 32 or 33
Pending == { c \in 1..Len(calls) : calls[c].state = "pending" }

\* lines 27-29: a call finds a usable token and returns it
GetTokenCached ==
    /\ Len(calls) < MaxCalls
    /\ CacheValid(tokenCache, clock)
    /\ calls' = Append(calls, [now |-> clock, found |-> tokenCache,
                               during |-> Pending, issued |-> 0,
                               state |-> "returned", response |-> NoResponse,
                               lifetime |-> 0, ret |-> tokenCache.token])
    /\ UNCHANGED <<tokenCache, clock, mainState, startup>>

\* mutant of GetTokenRequested: a call that starts while a request is in
\* flight waits for that one instead of issuing its own
GetTokenJoinsRequest ==
    /\ Len(calls) < MaxCalls
    /\ ~CacheValid(tokenCache, clock)
    /\ calls' = Append(calls, [now |-> clock, found |-> tokenCache,
                               during |-> Pending,
                               issued |-> IF Pending = {} THEN 1 ELSE 0,
                               state |-> "pending", response |-> NoResponse,
                               lifetime |-> 0, ret |-> ""])
    /\ UNCHANGED <<tokenCache, clock, mainState, startup>>

\* lines 27-32: a call finds no usable token and issues the credential
\* exchange, whatever other calls are doing
GetTokenRequested ==
    /\ Len(calls) < MaxCalls
    /\ ~CacheValid(tokenCache, clock)
    /\ calls' = Append(calls, [now |-> clock, found |-> tokenCache,
                               during |-> Pending, issued |-> 1,
                               state |-> "pending", response |-> NoResponse,
                               lifetime |-> 0, ret |-> ""])
    /\ UNCHANGED <<tokenCache, clock, mainState, startup>>

\* lines 33-39: the response of call c carries a token, which is cached
GetTokenGranted(c, accessToken, expiresIn) ==
    /\ c \in Pending
    /\ accessToken \notin NoTokens
    /\ tokenCache' = [token |-> accessToken,
                      expiry |-> Expiry(calls[c].now, expiresIn)]
    /\ calls' = [calls EXCEPT ![c] =
                    [@ EXCEPT !.state = "returned", !.response = accessToken,
                              !.lifetime = expiresIn, !.ret = tokenCache'.token]]
    /\ UNCHANGED <<clock, mainState, startup>>

\* lines 33-34: the response of call c carries no token
GetTokenMissing(c, accessToken) ==
    /\ c \in Pending
    /\ accessToken \in NoTokens
    /\ calls' = [calls EXCEPT ![c] =
                    [@ EXCEPT !.state = "threw", !.response = accessToken]]
    /\ UNCHANGED <<tokenCache, clock, mainState, startup>>

\* lines 32-33: the fetch of call c rejects, or its body is not JSON
GetTokenFetchThrows(c) ==
    /\ c \in Pending
    /\ calls' = [calls EXCEPT ![c] = [@ EXCEPT !.state = "threw"]]
    /\ UNCHANGED <<tokenCache, clock, mainState, startup>>

\* lines 10-22 have run
ConfigLoaded ==
    /\ ~loaded
    /\ CONFIG' = ConfigResolved(env, configJson).CONFIG
    /\ warned' = ConfigResolved(env, configJson).warned
    /\ loaded' = TRUE
    /\ UNCHANGED <<tokenCache, clock, exitCode, file, pc, names, now, token, i,
                   liveUsers, runs, rows, reqs, resps, raised, fileBefore, gtLog,
                   env, configJson, out, calls>>

\* lines 13-15: both variables are set and not empty
LoadFromEnv == EnvComplete(env) /\ ConfigLoaded

\* line 18: config.json is read and parsed
LoadFromFile == ~EnvComplete(env) /\ configJson.kind = "json" /\ ConfigLoaded

\* lines 18, 20-22: readFileSync or JSON.parse throws
LoadWarns == ~EnvComplete(env) /\ configJson.kind # "json" /\ ConfigLoaded

(***************************************************************************)
(* The program as shipped (lines 119-122): one call of main per process.   *)
(* The cache is empty when getToken is called, so line 29 never returns.   *)
(***************************************************************************)
Next ==
    \/ runs = 0 /\ MainLoadFails
    \/ runs = 0 /\ \E sheet \in Spreadsheets : MainNoNames(sheet)
    \/ runs = 0 /\ \E sheet \in Spreadsheets : MainTokenRequest(sheet)
    \/ TokenFetchThrows
    \/ \E a \in NoTokens : TokenMissing(a)
    \/ \E a \in Tokens, e \in Lifetimes : TokenGranted(a, e)
    \/ StreamsThrows
    \/ \E body \in StreamBodies : StreamsNext(body)
    \/ \E body \in StreamBodies : StreamsLastWritten(body)
    \/ \E body \in StreamBodies : StreamsLastWriteFails(body)
    \/ Tick

Spec == Init /\ [][Next]_vars

(***************************************************************************)
(* The timer mode of lines 114-117: main is called again and again in one  *)
(* process, each call after the one before it has finished.  Its rosters   *)
(* fit in one batch, so no second batch is ever requested.                 *)
(***************************************************************************)
TimerNext ==
    \/ runs < MaxRuns /\ MainLoadFails
    \/ runs < MaxRuns /\ \E sheet \in TimerSheets : MainNoNames(sheet)
    \/ runs < MaxRuns /\ \E sheet \in TimerSheets : MainTokenCached(sheet)
    \/ runs < MaxRuns /\ \E sheet \in TimerSheets : MainTokenRequest(sheet)
    \/ TokenFetchThrows
    \/ \E a \in NoTokens : TokenMissing(a)
    \/ \E a \in Tokens, e \in Lifetimes : TokenGranted(a, e)
    \/ StreamsThrows
    \/ \E body \in TimerBodies : StreamsLastWritten(body)
    \/ \E body \in TimerBodies : StreamsLastWriteFails(body)
    \/ Tick

\* the process starts without live.json; later runs find what earlier runs wrote
TimerInit == Init /\ file = NoFile

SpecTimer == TimerInit /\ [][TimerNext]_vars

(***************************************************************************)
(* loadUsernames on every small sheet: main up to its first await.         *)
(***************************************************************************)
RosterNext ==
    \/ runs = 0 /\ \E sheet \in RosterSheets(MaxRows) : MainNoNames(sheet)
    \/ runs = 0 /\ \E sheet \in RosterSheets(MaxRows) : MainTokenRequest(sheet)

SpecRoster == Init /\ [][RosterNext]_vars


(***************************************************************************)
(* Notions the properties below are stated in.                             *)
(***************************************************************************)
IsTokenRequest(r) == r.kind = "token"
IsStreamsRequest(r) == r.kind = "streams"

\* the credential-exchange requests and the streams queries of the current run
TokenRequests == SelectSeq(reqs, IsTokenRequest)
StreamsQueries == SelectSeq(reqs, IsStreamsRequest)

\* ceil(n / 100)
BatchCount(n) == (n + 99) \div 100

\* the identifiers at roster positions 100k .. min(100k + 99, n - 1), k from 0
RosterSlice(k) ==
    [p \in 1..(IF 100 * k + 100 <= Len(names) THEN 100 ELSE Len(names) - 100 * k)
        |-> names[100 * k + p]]

\* a getToken call made while a token was cached and the time was strictly
\* before the cached expiry
InWindow(call) == call.before.token # Null /\ call.at < call.before.expiry

\* the two calls are consecutive and both fall inside the expiry window of the
\* token the second one found cached
BothInWindow(first, second) ==
    /\ first.state = "returned"
    /\ first.after = second.before
    /\ first.at < first.after.expiry
    /\ InWindow(second)

\* the getToken records agree with the requests issued and with the cache
LogAgrees ==
    /\ Len(gtLog) > 0 =>
          /\ tokenCache = gtLog[Len(gtLog)].after
          /\ gtLog[Len(gtLog)].run = runs => gtLog[Len(gtLog)].issued = Len(TokenRequests)
          /\ gtLog[Len(gtLog)].run # runs => Len(TokenRequests) = 0
    /\ Len(gtLog) = 2 => gtLog[1].after = gtLog[2].before

(***************************************************************************)
(* C1 (as amended). A getToken call made while a token is cached and the   *)
(* time is strictly before the cached expiry returns the cached token,     *)
(* issues no credential-exchange request and leaves the cache unchanged;   *)
(* two consecutive calls that both fall inside the expiry window issue at  *)
(* most one request in total: one when the first refreshed, none when the  *)
(* first was served from the cache too.                                    *)
(***************************************************************************)
C1_CachedTokenReused ==
    /\ LogAgrees
    /\ \A k \in 1..Len(gtLog) :
          InWindow(gtLog[k]) =>
             /\ gtLog[k].issued = 0
             /\ gtLog[k].state = "returned"
             /\ gtLog[k].ret = gtLog[k].before.token
             /\ gtLog[k].after = gtLog[k].before
    /\ (Len(gtLog) = 2 /\ BothInWindow(gtLog[1], gtLog[2])) =>
          gtLog[1].issued + gtLog[2].issued = (IF InWindow(gtLog[1]) THEN 0 ELSE 1)

\* a refresh followed by a call inside the window of the refreshed token
C1_Witness ==
    /\ Len(gtLog) = 2
    /\ BothInWindow(gtLog[1], gtLog[2])
    /\ ~InWindow(gtLog[1])
    /\ gtLog[2].run = runs
    /\ Len(TokenRequests) = 0
    /\ token = gtLog[1].response

\* C1 as stated: any two consecutive calls that both fall inside the expiry
\* window issue exactly one credential-exchange request in total
C1_ExactlyOneRequest ==
    (Len(gtLog) = 2 /\ BothInWindow(gtLog[1], gtLog[2])) =>
        gtLog[1].issued + gtLog[2].issued = 1

(***************************************************************************)
(* C2. A getToken call made when no token is cached, or at or after the    *)
(* cached expiry, issues exactly one credential-exchange request; when the *)
(* response carries an access token, that token replaces the cached one    *)
(* and is the one returned.                                                *)
(***************************************************************************)
C2_RefreshReplaces ==
    /\ LogAgrees
    /\ \A k \in 1..Len(gtLog) :
          ~InWindow(gtLog[k]) =>
             /\ gtLog[k].issued = 1
             /\ gtLog[k].response \in Tokens =>
                   /\ gtLog[k].state = "returned"
                   /\ gtLog[k].ret = gtLog[k].response
                   /\ gtLog[k].after.token = gtLog[k].response
    /\ (Len(gtLog) > 0 /\ gtLog[Len(gtLog)].run = runs
          /\ gtLog[Len(gtLog)].response \in Tokens) =>
             /\ token = gtLog[Len(gtLog)].response
             /\ \A q \in 1..Len(StreamsQueries) :
                   StreamsQueries[q].bearer = gtLog[Len(gtLog)].response

\* a call after the expiry of a cached token, answered with another token
C2_Witness ==
    /\ Len(gtLog) = 2
    /\ gtLog[2].before.token \in Tokens
    /\ gtLog[2].at >= gtLog[2].before.expiry
    /\ gtLog[2].response \in Tokens
    /\ gtLog[2].response # gtLog[2].before.token
    /\ tokenCache.token = gtLog[2].response

(***************************************************************************)
(* C3. When the credential-exchange response carries no access token,      *)
(* getToken throws and the run ends without any streams query.             *)
(***************************************************************************)
C3_NoQueryAfterAuthFailure ==
    (Len(gtLog) > 0 /\ gtLog[Len(gtLog)].run = runs
       /\ gtLog[Len(gtLog)].response \in NoTokens) =>
          /\ gtLog[Len(gtLog)].state = "threw"
          /\ pc = "done"
          /\ raised = "auth"
          /\ Len(StreamsQueries) = 0

C3_Witness ==
    /\ Len(gtLog) > 0
    /\ gtLog[Len(gtLog)].response = Absent
    /\ raised = "auth"
    /\ Len(names) = 250
    /\ reqs = <<TokenRequest>>

(***************************************************************************)
(* C4. After a run that ended in a fatal failure, live.json holds exactly  *)
(* what it held when the run started.                                      *)
(***************************************************************************)
C4_FileUntouchedOnFailure ==
    (pc = "done" /\ raised # "none") => file = fileBefore

(***************************************************************************)
(* C5. A roster of n identifiers is queried in ceil(n/100) batches when no *)
(* request throws; the k-th query carries the identifiers at positions     *)
(* 100k .. min(100k+99, n-1) in roster order, so each batch has 1 to 100   *)
(* identifiers and only the last may have fewer than 100.                  *)
(***************************************************************************)
C5_Batching ==
    /\ Len(StreamsQueries) <= BatchCount(Len(names))
    /\ \A k \in 1..Len(StreamsQueries) :
          /\ StreamsQueries[k].batch = RosterSlice(k - 1)
          /\ Len(StreamsQueries[k].batch) \in 1..100
          /\ Len(StreamsQueries[k].batch) < 100 => k = BatchCount(Len(names))
    /\ (pc = "done" /\ raised \in {"none", "write"}) =>
          Len(StreamsQueries) = BatchCount(Len(names))

\* 250 identifiers: batches of 100, 100 and 50
C5_Witness ==
    /\ pc = "done"
    /\ raised = "none"
    /\ Len(names) = 250
    /\ Len(StreamsQueries) = 3
    /\ Len(StreamsQueries[1].batch) = 100
    /\ Len(StreamsQueries[2].batch) = 100
    /\ Len(StreamsQueries[3].batch) = 50
    /\ StreamsQueries[3].batch[1] = names[201]


(***************************************************************************)
(* C6. Whatever goes wrong with the query of one batch, every later batch  *)
(* is still queried and the run still writes a snapshot.                   *)
(***************************************************************************)
C6_FailedBatchDoesNotBlock ==
    (pc = "done" /\ Len(StreamsQueries) > 0) =>
        /\ Len(StreamsQueries) = BatchCount(Len(names))
        /\ raised # "write" => (file.state = "snapshot" /\ file.live = liveUsers)

(***************************************************************************)
(* C7. A response without a data collection adds no record and keeps the   *)
(* records collected so far; its batch is not queried again: the only      *)
(* request that follows is the one for the next batch, or none after the   *)
(* last batch.                                                             *)
(***************************************************************************)
C7_NoDataContributesNothing ==
    [][ (Len(resps') = Len(resps) + 1 /\ ~resps'[Len(resps')].hasData) =>
          /\ liveUsers' = liveUsers
          /\ IF 100 * Len(resps') < Len(names)
             THEN /\ reqs' = Append(reqs, [kind |-> "streams",
                                           batch |-> RosterSlice(Len(resps')),
                                           bearer |-> token])
                  /\ pc' = "streams"
             ELSE /\ reqs' = reqs
                  /\ pc' = "done" ]_vars

\* the second of three batches came back without data: the first batch's
\* records are still there and the third batch has been queried
C7_Witness ==
    /\ Len(resps) = 2
    /\ resps[1].hasData /\ Len(resps[1].data) = 2
    /\ ~resps[2].hasData
    /\ Len(liveUsers) = 2
    /\ Len(StreamsQueries) = 3
    /\ pc = "streams"

(***************************************************************************)
(* C8. checkLive's result is the concatenation, in batch order, of one     *)
(* record per response entry in response order: username from user_name,   *)
(* title and game "" when absent, started_at copied.                       *)
(***************************************************************************)
ExpectedRecord(e) ==
    [username |-> e.user_name,
     title |-> IF e.title = Absent THEN "" ELSE e.title,
     game |-> IF e.game_name = Absent THEN "" ELSE e.game_name,
     started_at |-> e.started_at]

RECURSIVE ExpectedLive(_)
ExpectedLive(bodies) ==
    IF bodies = <<>> THEN <<>>
    ELSE LET last == bodies[Len(bodies)]
         IN  ExpectedLive(SubSeq(bodies, 1, Len(bodies) - 1))
               \o (IF last.hasData
                   THEN [k \in 1..Len(last.data) |-> ExpectedRecord(last.data[k])]
                   ELSE <<>>)

C8_ResultIsConcatenation == liveUsers = ExpectedLive(resps)

\* three batches answered; entries repeated and an entry without a title
C8_Witness ==
    /\ pc = "done"
    /\ raised = "none"
    /\ Len(resps) = 3
    /\ resps[1] = Body(TRUE, <<EntryBob, EntryAlice>>)
    /\ resps[2] = Body(TRUE, <<EntryAlice, EntryAlice>>)
    /\ resps[3] = Body(TRUE, <<EntryAlice>>)
    /\ Len(liveUsers) = 5
    /\ liveUsers[1].title = ""
    /\ file.live = liveUsers

(***************************************************************************)
(* C9. loadUsernames returns, in row order, the trimmed identifier of      *)
(* exactly the rows after row 0 whose column A, coerced to a trimmed       *)
(* string, is non-empty and whose column E, coerced to a trimmed string,   *)
(* is non-empty and not "no" or "false" in any letter case.                *)
(***************************************************************************)
\* a cell coerced to a string: nothing for an empty cell
CellString(c) ==
    CASE c.t = "string"  -> c.s
      [] c.t = "number"  -> NumberToString(c.n)
      [] c.t = "boolean" -> IF c.n = 1 THEN <<"t","r","u","e">> ELSE False
      [] OTHER           -> <<>>

SelectedRow(row) ==
    /\ Trim(CellString(CellAt(row, 0))) # <<>>
    /\ Trim(CellString(CellAt(row, 4))) # <<>>
    /\ ToLowerCase(Trim(CellString(CellAt(row, 4)))) \notin {No, False}

ExpectedNames(sheet) ==
    LET selected == SelectSeq(SubSeq(sheet, 2, Len(sheet)), SelectedRow)
    IN  [k \in 1..Len(selected) |-> Trim(CellString(CellAt(selected[k], 0)))]

C9_RosterFilter ==
    /\ names = ExpectedNames(rows)
    /\ Len(rows) > 0 => Len(names) <= Len(rows) - 1
    /\ \A k \in 1..Len(names) : names[k] # <<>>

(***************************************************************************)
(* C10. At the end of a run the exit code is non-zero exactly when a step  *)
(* of the run threw; it is zero after a successful run and after a run     *)
(* that found no identifier.                                               *)
(***************************************************************************)
C10_ExitCode ==
    /\ pc = "done" => (exitCode # 0 <=> raised # "none")
    /\ pc # "done" => exitCode = 0

C10_Witness ==
    /\ pc = "done"
    /\ raised = "write"
    /\ exitCode = 1
    /\ Len(StreamsQueries) = 2

(***************************************************************************)
(* C11 (as amended). checkLive reads the token cache, through getToken,    *)
(* once per call, before its first batch: a run makes at most one getToken *)
(* call, every streams query of the run follows that one call and carries  *)
(* the token it returned, and the queries of the later batches are issued  *)
(* without another getToken call.                                          *)
(***************************************************************************)
InThisRun(call) == call.run = runs

\* the getToken calls of the current run, among the last two of the process
CallsOfRun == SelectSeq(gtLog, InThisRun)

C11_CacheReadOnce ==
    /\ Len(CallsOfRun) <= 1
    /\ Len(StreamsQueries) > 0 =>
          /\ Len(CallsOfRun) = 1
          /\ CallsOfRun[1].state = "returned"
          /\ \A q \in 1..Len(StreamsQueries) :
                StreamsQueries[q].bearer = CallsOfRun[1].ret

\* the third batch is out, the cached token has expired since the only
\* getToken call of the run
C11_Witness ==
    /\ pc = "streams"
    /\ Len(StreamsQueries) = 3
    /\ Len(CallsOfRun) = 1
    /\ CallsOfRun[1].at = 0
    /\ clock > 0
    /\ clock >= tokenCache.expiry
    /\ StreamsQueries[3].bearer = tokenCache.token

\* C11 as stated: getToken is called before every query batch, so a run
\* that has issued a second batch has made a second getToken call
C11_CacheReadBeforeEveryBatch ==
    Len(StreamsQueries) >= 2 => Len(CallsOfRun) = 2

(***************************************************************************)
(* C12. The cache starts without a token, and whenever the cache changes   *)
(* it takes the access token of the response the getToken call in progress *)
(* received, with expiry T + expires_in * 1000 - 60000, T being the clock  *)
(* value that call read when it started; so a cached token always has the  *)
(* expiry computed by the call that stored it.                             *)
(***************************************************************************)
C12_ExpiryOfCachedToken ==
    [][ tokenCache' # tokenCache =>
          /\ Len(gtLog') > 0
          /\ tokenCache'.token \in Tokens
          /\ gtLog'[Len(gtLog')].response = tokenCache'.token
          /\ gtLog'[Len(gtLog')].lifetime \in Lifetimes
          /\ tokenCache'.expiry = gtLog'[Len(gtLog')].at
                                    + gtLog'[Len(gtLog')].lifetime * 1000 - 60000 ]_vars

\* a second refresh replaced the token of a first; the call started at 30000
\* and its response came with a lifetime of 120 s after the clock had moved
C12_Witness ==
    /\ Len(gtLog) = 2
    /\ gtLog[1].response \in Tokens
    /\ gtLog[2].response \in Tokens
    /\ gtLog[2].at = 30000
    /\ gtLog[2].lifetime = 120
    /\ clock = 60000
    /\ tokenCache = [token |-> gtLog[2].response, expiry |-> 90000]

(***************************************************************************)
(* Loading the module in any environment: lines 10-22.                     *)
(***************************************************************************)
ConfigInit ==
    /\ Fresh
    /\ env \in Environments
    /\ configJson \in ConfigFiles
    /\ CONFIG = EmptyCredentials
    /\ warned = FALSE
    /\ loaded = FALSE

ConfigNext == LoadFromEnv \/ LoadFromFile \/ LoadWarns

SpecConfig == ConfigInit /\ [][ConfigNext]_vars

(***************************************************************************)
(* C13. Once the configuration is resolved: the credentials are the two    *)
(* environment variables when both are set and non-empty; otherwise the    *)
(* two fields of config.json when both are there and non-empty; otherwise  *)
(* the credentials are empty and the warning has been printed.             *)
(***************************************************************************)
\* config.json yields a usable client identifier and secret
FileUsable(f) ==
    /\ f.kind = "json"
    /\ ~f.value.isNull
    /\ f.value.twitch_client_id \notin {Absent, ""}
    /\ f.value.twitch_client_secret \notin {Absent, ""}

C13_ConfigResolver ==
    loaded =>
       /\ EnvComplete(env) =>
             /\ CONFIG.twitch_client_id = env.TWITCH_CLIENT_ID
             /\ CONFIG.twitch_client_secret = env.TWITCH_CLIENT_SECRET
       /\ (~EnvComplete(env) /\ FileUsable(configJson)) =>
             /\ CONFIG.twitch_client_id = configJson.value.twitch_client_id
             /\ CONFIG.twitch_client_secret = configJson.value.twitch_client_secret
       /\ (~EnvComplete(env) /\ ~FileUsable(configJson)) =>
             /\ CONFIG = EmptyCredentials
             /\ warned

(***************************************************************************)
(* C14. A writeJSON call that returns leaves in live.json a snapshot with  *)
(* the time of the call and exactly the records it was given, whatever the *)
(* file held before; when the file already held a snapshot of the same     *)
(* records, the new content differs from the old one in the timestamp      *)
(* only; the value returned has the timestamp and the records written.     *)
(***************************************************************************)
C14_WriteJSON ==
    [][ (pc = "streams" /\ pc' = "done" /\ raised' = "none") =>
          /\ file'.state = "snapshot"
          /\ file'.timestamp = ToISOString(clock)
          /\ file'.live = liveUsers'
          /\ (file.state = "snapshot" /\ file.live = liveUsers') =>
                file' = [file EXCEPT !.timestamp = ToISOString(clock)]
          /\ out'.timestamp = file'.timestamp
          /\ out'.live = file'.live ]_vars

\* the run wrote the records the file held already, at a later time
C14_Witness ==
    /\ pc = "done"
    /\ raised = "none"
    /\ names # <<>>
    /\ fileBefore.state = "snapshot"
    /\ Len(fileBefore.live) = 1
    /\ file.live = fileBefore.live
    /\ file.timestamp # fileBefore.timestamp
    /\ liveUsers = file.live
    /\ out = [timestamp |-> file.timestamp, live |-> liveUsers]

(***************************************************************************)
(* C15. The steps of a run come in the order roster load, token            *)
(* acquisition, batch queries in ascending batch order with each response  *)
(* received before the next query is issued, snapshot write: requests are  *)
(* issued only once a roster is loaded, the credential exchange comes      *)
(* before every streams query, the k-th query carries the k-th batch and   *)
(* is issued when k - 1 responses are in, the file changes only when every *)
(* batch has been answered; a run whose roster load fails issues no        *)
(* request at all.                                                         *)
(***************************************************************************)
C15_StepOrder ==
    /\ reqs # <<>> => (rows # <<>> /\ names # <<>>)
    /\ \A k \in 1..Len(reqs) : IsTokenRequest(reqs[k]) => k = 1
    /\ Len(StreamsQueries) > 0 =>
          (Len(CallsOfRun) = 1 /\ CallsOfRun[1].state = "returned")
    /\ \A k \in 1..Len(StreamsQueries) : StreamsQueries[k].batch = RosterSlice(k - 1)
    /\ Len(resps) <= Len(StreamsQueries)
    /\ Len(StreamsQueries) <= Len(resps) + 1
    /\ pc = "streams" => Len(StreamsQueries) = Len(resps) + 1
    /\ file # fileBefore =>
          /\ pc = "done"
          /\ Len(resps) = BatchCount(Len(names))
          /\ Len(StreamsQueries) = Len(resps)
    /\ raised = "load" =>
          /\ reqs = <<>>
          /\ CallsOfRun = <<>>
          /\ file = fileBefore

\* a whole run over 200 identifiers: the credential exchange, two queries,
\* two responses, then the write
C15_Witness ==
    /\ pc = "done"
    /\ raised = "none"
    /\ Len(names) = 200
    /\ Len(reqs) = 3
    /\ IsTokenRequest(reqs[1])
    /\ IsStreamsRequest(reqs[2])
    /\ IsStreamsRequest(reqs[3])
    /\ reqs[3].batch[1] = names[101]
    /\ Len(resps) = 2
    /\ file # fileBefore
    /\ file.state = "snapshot"

(***************************************************************************)
(* C16. The token cache changes only in the step in which a getToken call  *)
(* receives a credential-exchange response that carries an access token.   *)
(* A getToken call that throws, the handling of a streams response, the    *)
(* roster load, the write of the snapshot and main's catch block leave     *)
(* the cached token and the cached expiry as they were.                    *)
(***************************************************************************)
C16_CacheFrame ==
    [][ /\ tokenCache' # tokenCache =>
             /\ pc = "token"
             /\ pc' = "streams"
             /\ gtLog'[Len(gtLog')].state = "returned"
             /\ gtLog'[Len(gtLog')].response \in Tokens
        /\ (pc = "token" /\ raised' \in {"auth", "token_fetch"}) =>
             tokenCache' = tokenCache
        /\ pc = "streams" => tokenCache' = tokenCache
        /\ runs' # runs => tokenCache' = tokenCache
        /\ file' # file => tokenCache' = tokenCache
        /\ exitCode' # exitCode => tokenCache' = tokenCache ]_vars

\* a refresh of an expired token failed: the expired token is still cached
C16_Witness ==
    /\ Len(gtLog) = 2
    /\ gtLog[2].state = "threw"
    /\ gtLog[2].response \in NoTokens
    /\ gtLog[2].before.token \in Tokens
    /\ gtLog[2].at >= gtLog[2].before.expiry
    /\ tokenCache = gtLog[2].before
    /\ raised = "auth"

(***************************************************************************)
(* C17. A run whose loaded roster is empty ends at once: it issues no      *)
(* credential-exchange request and no streams query, makes no getToken     *)
(* call, leaves the token cache unchanged and leaves live.json as it was,  *)
(* so a snapshot written earlier keeps its records and its timestamp.      *)
(***************************************************************************)
C17_EmptyRosterNoOp ==
    [][ (runs' = runs + 1 /\ names' = <<>> /\ raised' = "none") =>
          /\ pc' = "done"
          /\ reqs' = <<>>
          /\ gtLog' = gtLog
          /\ tokenCache' = tokenCache
          /\ file' = file
          /\ out' = out
          /\ exitCode' = exitCode ]_vars

\* a run over a sheet without a usable row, after a run that cached a token
\* and wrote a snapshot earlier
C17_Witness ==
    /\ runs >= 2
    /\ pc = "done"
    /\ raised = "none"
    /\ rows = <<Header>>
    /\ names = <<>>
    /\ reqs = <<>>
    /\ tokenCache.token \in Tokens
    /\ file.state = "snapshot"
    /\ file = fileBefore
    /\ file.timestamp = ToISOString(0)
    /\ clock = 60000

(***************************************************************************)
(* The timer of line 117 does not wait for the main it started: a run      *)
(* begins while an earlier one is suspended at an await.  The getToken     *)
(* calls of such runs, each one free to start before or after an earlier   *)
(* call's response has arrived.                                            *)
(***************************************************************************)
OverlapNext ==
    \/ GetTokenCached
    \/ GetTokenRequested
    \/ \E c \in 1..MaxCalls, a \in Tokens, e \in Lifetimes : GetTokenGranted(c, a, e)
    \/ \E c \in 1..MaxCalls, a \in NoTokens : GetTokenMissing(c, a)
    \/ \E c \in 1..MaxCalls : GetTokenFetchThrows(c)
    \/ Tick

SpecOverlap == TimerInit /\ [][OverlapNext]_vars

(***************************************************************************)
(* C18. A getToken call issues a credential-exchange request exactly when  *)
(* it finds no usable token.  When no call starts while another is         *)
(* suspended, at most one request is in flight at any time.  When a call   *)
(* starts while another is suspended on its request and finds the cache    *)
(* absent or expired, both have issued a request: nothing makes the second *)
(* wait for the first.                                                     *)
(***************************************************************************)
\* no call started while another one was waiting for its response
NeverOverlapped == \A c \in 1..Len(calls) : calls[c].during = {}

C18_DuplicateRefresh ==
    /\ \A c \in 1..Len(calls) :
          calls[c].issued = (IF CacheValid(calls[c].found, calls[c].now) THEN 0 ELSE 1)
    /\ \A c \in Pending : calls[c].issued = 1
    /\ NeverOverlapped => Cardinality(Pending) <= 1
    /\ \A c \in 1..Len(calls) : \A b \in calls[c].during :
          ~CacheValid(calls[c].found, calls[c].now) =>
              (calls[b].issued = 1 /\ calls[c].issued = 1)

\* two calls found the cache empty, the second before the first's response
\* was stored: two requests, two tokens, the later response is the one cached
C18_Witness ==
    /\ Len(calls) = 2
    /\ calls[2].during = {1}
    /\ calls[1].found.token = Null
    /\ calls[2].found.token = Null
    /\ calls[1].issued + calls[2].issued = 2
    /\ calls[1].state = "returned"
    /\ calls[2].state = "returned"
    /\ calls[1].ret # calls[2].ret
    /\ tokenCache.token \in {calls[1].ret, calls[2].ret}

(***************************************************************************)
(* C19. A run issues at most one credential-exchange request, and only as  *)
(* its first request; every streams query of the run carries the token     *)
(* checkLive obtained before the first batch, also when the clock has      *)
(* reached the cached expiry before a later batch is sent.                 *)
(***************************************************************************)
C19_OneTokenPerRun ==
    /\ Len(TokenRequests) <= 1
    /\ Len(TokenRequests) = 1 => IsTokenRequest(reqs[1])
    /\ Len(TokenRequests) + Len(StreamsQueries) = Len(reqs)
    /\ \A q \in 1..Len(StreamsQueries) :
          /\ StreamsQueries[q].bearer = token
          /\ StreamsQueries[q].bearer = StreamsQueries[1].bearer
          /\ StreamsQueries[q].bearer \in Tokens

\* the token came with a lifetime of 60 s, so with the margin it expired at
\* the time it was asked for; the clock has moved on and all three batches
\* were queried with it
C19_Witness ==
    /\ pc = "done"
    /\ raised = "none"
    /\ Len(StreamsQueries) = 3
    /\ Len(TokenRequests) = 1
    /\ tokenCache.expiry = 0
    /\ clock = 60000
    /\ StreamsQueries[1].bearer = tokenCache.token
    /\ StreamsQueries[3].bearer = tokenCache.token

====
